---- MODULE Spec2Model ----
(***************************************************************************)
(* A model of meu-app-quiz: the React component App (src/src/App.tsx), its *)
(* useLocalStorage hook, the QuizEditor child and the two Gemini calls of  *)
(* src/src/services/geminiService.ts.                                      *)
(*                                                                         *)
(* One action is one event of the browser's event loop: a user event or    *)
(* the continuation of an awaited promise, together with the render and    *)
(* the effects (App's useEffect, the hook's write effect) that React runs  *)
(* before the next event.  State updates of one event are batched (the     *)
(* application is mounted with ReactDOM.createRoot).                        *)
(***************************************************************************)
EXTENDS Integers, Sequences, FiniteSets, TLC

\* ------------------------------------------------------------------ bounds
\* Largest reading of Date.now() (the clock starts at 0).
MaxClock == 1
\* Number of crypto.randomUUID() results one run may draw.
MaxUuid == 2
\* Materials held in memory at once.
MaxRecords == 2
\* Attempts recorded per Material.
MaxAttempts == 2
\* Upload requests in flight at once.
MaxUploads == 2
\* Questions a generated quiz may hold.
MaxGenQuiz == 2
\* Single-question requests in flight at once.
MaxAiRequests == 1
\* localStorage.setItem calls that throw in one run.
MaxWriteFailures == 1

\* ------------------------------------------------------------- data model
\* enum AnswerStatus
UNANSWERED == 0
CORRECT == 1
INCORRECT == 2

\* JavaScript's null (an activePdfId, an editingId, a question id that is
\* null or absent).
NULL == <<>>
\* The null of the error state, whose other values are message strings.
NoError == "(null)"
\* `pdf_${Date.now()}`: injective in the clock reading.
PdfId(t) == <<"pdf", t>>

\* crypto.randomUUID(): the n-th id drawn by this browser profile.
BadRandomUUID(n) == <<"uuid", 1>>
RandomUUID(n) == <<"uuid", n>>

\* The file the user picks, and file.name.replace(/\.pdf$/i, '').
FileName == "a.pdf"
StripPdf(name) == IF name = "a.pdf" THEN "a" ELSE name

\* String.prototype.trim on the texts of the model.
Trim(t) == IF t = " " THEN "" ELSE t

\* What generateQuizAndSummaryFromText resolves to: a summary and 0..MaxGenQuiz
\* items, each with a non-empty source_questions.
GenItem == [question |-> "q", answer |-> "a", source_questions |-> "s"]
GenData == { [summary |-> "sum", quiz |-> [i \in 1..n |-> GenItem]] : n \in 0..MaxGenQuiz }

SeqSum(s) == LET RECURSIVE Go(_)
                 Go(i) == IF i = 0 THEN 0 ELSE s[i] + Go(i - 1)
             IN Go(Len(s))

\* pdfRecords.find(p => p.id === id): the index of the first match, 0 if none.
FindIndex(recs, id) ==
    IF \E i \in 1..Len(recs) : recs[i].id = id
    THEN CHOOSE i \in 1..Len(recs) :
            recs[i].id = id /\ \A j \in 1..(i - 1) : recs[j].id # id
    ELSE 0

\* --------------------------------------------------------------- storage
\* window.localStorage under the key 'pdfQuizRecords': no item, a text that
\* JSON.parse rejects (or that is no array), or the JSON text of records.
NoItem == [kind |-> "none"]
Corrupt == [kind |-> "corrupt"]
\* JSON.stringify of the records: every field is a string, a number or an
\* array of those, and is written as it is.
Stringify(recs) == [kind |-> "json", val |-> recs]
Parse(item) == item.val

VARIABLES
    storage,              \* the localStorage item
    writeFailures,        \* how many setItem calls have thrown
    phase,                \* "boot": the page is not mounted; "run": it is
    pdfRecords,           \* useLocalStorage's storedValue
    activePdfId,
    gameState,
    currentQuiz,
    currentQuestionIndex,
    error,
    extracting,           \* handleFileUpload calls awaiting extractTextFromPdf
    generating,           \* handleFileUpload calls awaiting the generation
    aiRequests,           \* handleGenerateWithAi calls awaiting their result
    isGenerating,         \* QuizEditor state
    editingId,            \* QuizEditor state
    now,                  \* Date.now()
    nextUuid              \* how many UUIDs were drawn, plus one

vars == <<storage, writeFailures, phase, pdfRecords, activePdfId, gameState,
          currentQuiz, currentQuestionIndex, error, extracting, generating,
          aiRequests, isGenerating, editingId, now, nextUuid>>

appVars == <<pdfRecords, activePdfId, gameState, currentQuiz,
             currentQuestionIndex, error>>
editorVars == <<aiRequests, isGenerating, editingId>>
uploadVars == <<extracting, generating>>

\* ------------------------------------------------------------- migration
NullCount(quiz) == Cardinality({i \in 1..Len(quiz) : quiz[i].id = NULL})
\* How many ids the migration has drawn before it reaches question q of
\* record r (records and questions are mapped in order).
DrawnBefore(recs, r, q) ==
    SeqSum([k \in 1..(r - 1) |-> NullCount(recs[k].quiz)])
    + Cardinality({i \in 1..(q - 1) : recs[r].quiz[i].id = NULL})

\* parsedData.map(record => ...): every question whose id is null or absent
\* gets a fresh UUID; everything else passes through.
MigrateData(recs, base) ==
    [r \in 1..Len(recs) |->
        [recs[r] EXCEPT !.quiz =
            [q \in 1..Len(recs[r].quiz) |->
                IF recs[r].quiz[q].id = NULL
                THEN [recs[r].quiz[q] EXCEPT
                        !.id = RandomUUID(base + DrawnBefore(recs, r, q))]
                ELSE recs[r].quiz[q]]]]

MigrationNeeded(recs) == \E r \in 1..Len(recs) : NullCount(recs[r].quiz) > 0
TotalNulls(recs) == SeqSum([k \in 1..Len(recs) |-> NullCount(recs[k].quiz)])

BadInitializerValue(item, base, setItemOk) ==
    IF item.kind = "json"
    THEN IF MigrationNeeded(Parse(item)) /\ setItemOk
         THEN MigrateData(Parse(item), base) ELSE Parse(item)
    ELSE <<[id |-> PdfId(0), fileName |-> FileName, displayName |-> "a",
            summary |-> "sum", quiz |-> <<>>, quizAttempts |-> <<>>,
            createdAt |-> 0]>>

\* The useState initializer of useLocalStorage: what it returns, given
\* whether the setItem of the migration write-back succeeds.
InitializerValue(item, base, setItemOk) ==
    IF item.kind = "none" THEN <<>>
    ELSE IF item.kind = "corrupt" THEN <<>>
    ELSE IF MigrationNeeded(Parse(item))
         THEN IF setItemOk THEN MigrateData(Parse(item), base) ELSE <<>>
         ELSE Parse(item)

\* What the initializer leaves in localStorage.
InitializerStorage(item, base, setItemOk) ==
    IF item.kind = "json" /\ MigrationNeeded(Parse(item)) /\ setItemOk
    THEN Stringify(MigrateData(Parse(item), base))
    ELSE item

\* ------------------------------------------------------- render and effects
\* App's useEffect on [pdfRecords, activePdfId].
AppEffect(recs, active, game) ==
    IF Len(recs) > 0 /\ active = NULL
    THEN [active |-> recs[1].id, game |-> "dashboard"]
    ELSE IF Len(recs) = 0
         THEN [active |-> NULL, game |-> "upload"]
         ELSE [active |-> active, game |-> game]

\* renderContent shows DashboardView (and with it QuizEditor).
EditorMounted(recs, active, game) ==
    game = "dashboard" /\ FindIndex(recs, active) # 0

\* The write effect of useLocalStorage.  Its dependency initialValue is a new
\* [] on every render of App, so it runs after every render; its condition
\* holds for every array.
BadWriteEffect(recs, item, setItemOk) ==
    IF setItemOk /\ Len(recs) > 0 THEN Stringify(recs) ELSE item
WriteEffect(recs, item, setItemOk) ==
    IF setItemOk THEN Stringify(recs) ELSE item


\* One render of App after an event whose batched updates leave the records
\* recs (recsSet: setPdfRecords was given a new array), the active id and the
\* view mode (other: some other state of App changed), followed by the
\* effects: App's effect runs when one of its dependencies changed, the write
\* effect after every render.  QuizEditor keeps its state (editing, gen) and
\* the requests it awaits keep their editor (ai) only if DashboardView stays
\* rendered throughout.
Commit(recs, recsSet, active, game, other, editing, gen, ai, setItemOk) ==
    LET depsChanged == recsSet \/ active # activePdfId
        eff == IF depsChanged THEN AppEffect(recs, active, game)
               ELSE [active |-> active, game |-> game]
        rendered == depsChanged \/ game # gameState \/ other
        keep == /\ EditorMounted(recs, active, game)
                /\ EditorMounted(recs, eff.active, eff.game)
    IN  /\ pdfRecords' = recs
        /\ activePdfId' = eff.active
        /\ gameState' = eff.game
        /\ setItemOk \/ (rendered /\ writeFailures < MaxWriteFailures)
        /\ storage' = IF rendered THEN WriteEffect(recs, storage, setItemOk)
                      ELSE storage
        /\ writeFailures' = IF setItemOk THEN writeFailures ELSE writeFailures + 1
        /\ editingId' = IF keep THEN editing ELSE NULL
        /\ isGenerating' = (keep /\ gen)
        /\ aiRequests' = IF keep THEN ai
                         ELSE [k \in 1..Len(ai) |-> [ai[k] EXCEPT !.live = FALSE]]

\* --------------------------------------------------------------- the page
\* The state before the page is first opened, with item in localStorage and
\* failed of the MaxWriteFailures failing writes already spent.
InitWith(item, failed) ==
    /\ storage = item
    /\ writeFailures = failed
    /\ phase = "boot"
    /\ pdfRecords = <<>>
    /\ activePdfId = NULL
    /\ gameState = "upload"
    /\ currentQuiz = <<>>
    /\ currentQuestionIndex = 0
    /\ error = NoError
    /\ extracting = 0
    /\ generating = 0
    /\ aiRequests = <<>>
    /\ isGenerating = FALSE
    /\ editingId = NULL
    /\ now = 0
    /\ nextUuid = 1

\* The page is opened: useLocalStorage's initializer (migration and its
\* write-back), the first render, and the effects of the mount.
Load(migrateOk, effectOk) ==
    /\ phase = "boot"
    /\ LET nulls == IF storage.kind = "json" THEN TotalNulls(Parse(storage)) ELSE 0
           recs == InitializerValue(storage, nextUuid, migrateOk)
           eff == AppEffect(recs, NULL, "upload")
           failed == (IF nulls > 0 /\ ~migrateOk THEN 1 ELSE 0)
                     + (IF effectOk THEN 0 ELSE 1)
       IN  /\ nulls = 0 => migrateOk
           /\ writeFailures + failed <= MaxWriteFailures
           /\ writeFailures' = writeFailures + failed
           /\ nextUuid + nulls - 1 <= MaxUuid
           /\ nextUuid' = nextUuid + nulls
           /\ pdfRecords' = recs
           /\ activePdfId' = eff.active
           /\ gameState' = eff.game
           /\ storage' = WriteEffect(recs,
                             InitializerStorage(storage, nextUuid, migrateOk),
                             effectOk)
    /\ phase' = "run"
    /\ UNCHANGED <<currentQuiz, currentQuestionIndex, error,
                   uploadVars, editorVars, now>>

\* The page is closed or reloaded: only localStorage survives.
Unload ==
    /\ phase = "run"
    /\ phase' = "boot"
    /\ pdfRecords' = <<>>
    /\ activePdfId' = NULL
    /\ gameState' = "upload"
    /\ currentQuiz' = <<>>
    /\ currentQuestionIndex' = 0
    /\ error' = NoError
    /\ extracting' = 0
    /\ generating' = 0
    /\ aiRequests' = <<>>
    /\ isGenerating' = FALSE
    /\ editingId' = NULL
    /\ UNCHANGED <<storage, writeFailures, now, nextUuid>>

\* Time passes.
Tick ==
    /\ now < MaxClock
    /\ now' = now + 1
    /\ UNCHANGED <<storage, writeFailures, phase, appVars, uploadVars, editorVars, nextUuid>>

\* ------------------------------------------------------ upload (App.tsx)
\* handleAddNew: the header's button, shown in every view.
HandleAddNew(setItemOk) ==
    /\ phase = "run"
    /\ Commit(pdfRecords, FALSE, NULL, "upload", FALSE,
              editingId, isGenerating, aiRequests, setItemOk)
    /\ UNCHANGED <<phase, currentQuiz, currentQuestionIndex,
                   error, uploadVars, now, nextUuid>>

\* handleFileUpload up to its first await.  FileUpload is rendered in the
\* view "upload"; its input is disabled only if gameState is "loading",
\* which it never is there.
HandleFileUpload(setItemOk) ==
    /\ phase = "run"
    /\ gameState = "upload"
    /\ extracting + generating < MaxUploads
    /\ extracting' = extracting + 1
    /\ error' = NoError
    /\ Commit(pdfRecords, FALSE, activePdfId, "loading", TRUE,
              editingId, isGenerating, aiRequests, setItemOk)
    /\ UNCHANGED <<phase, currentQuiz, currentQuestionIndex, generating,
                   now, nextUuid>>

\* extractTextFromPdf resolves: handleFileUpload goes on to its second await.
\* loadingMessage, a display text, is not a variable; setLoadingMessage is
\* taken to cause a render, which it does unless an overlapping upload has
\* already set the same text.
ExtractResolved(setItemOk) ==
    /\ phase = "run"
    /\ extracting > 0
    /\ extracting' = extracting - 1
    /\ generating' = generating + 1
    /\ Commit(pdfRecords, FALSE, activePdfId, gameState,
              TRUE,
              editingId, isGenerating, aiRequests, setItemOk)
    /\ UNCHANGED <<phase, currentQuiz, currentQuestionIndex, error,
                   now, nextUuid>>

\* The newRecord of handleFileUpload.
NewRecord(fileName, data, t, base) ==
    [id |-> PdfId(t),
     fileName |-> fileName,
     displayName |-> StripPdf(fileName),
     summary |-> data.summary,
     quiz |-> [i \in 1..Len(data.quiz) |->
                 [id |-> RandomUUID(base + i - 1),
                  question |-> data.quiz[i].question,
                  answer |-> data.quiz[i].answer,
                  source_questions |-> data.quiz[i].source_questions]],
     quizAttempts |-> <<>>,
     createdAt |-> t]

\* generateQuizAndSummaryFromText resolves: the rest of the try block.
GenerateResolved(data, setItemOk) ==
    /\ phase = "run"
    /\ generating > 0
    /\ Len(pdfRecords) < MaxRecords
    /\ nextUuid + Len(data.quiz) - 1 <= MaxUuid
    /\ generating' = generating - 1
    /\ nextUuid' = nextUuid + Len(data.quiz)
    /\ LET newRecord == NewRecord(FileName, data, now, nextUuid)
       IN  Commit(<<newRecord>> \o pdfRecords, TRUE, newRecord.id, "dashboard",
                  FALSE, editingId, isGenerating, aiRequests, setItemOk)
    /\ UNCHANGED <<phase, currentQuiz, currentQuestionIndex,
                   error, extracting, now>>

\* What the catch block of handleFileUpload leaves: a message and the view.
BadUploadCatch(message) == [error |-> NoError, game |-> "upload"]
UploadCatch(message) == [error |-> message, game |-> "upload"]

\* extractTextFromPdf rejects.
ExtractRejected(setItemOk) ==
    /\ phase = "run"
    /\ extracting > 0
    /\ extracting' = extracting - 1
    /\ LET c == UploadCatch("Failed to read file.")
       IN  /\ error' = c.error
           /\ Commit(pdfRecords, FALSE, activePdfId, c.game, error # c.error,
                     editingId, isGenerating, aiRequests, setItemOk)
    /\ UNCHANGED <<phase, currentQuiz, currentQuestionIndex,
                   generating, now, nextUuid>>

\* generateQuizAndSummaryFromText rejects (the API call fails, or its answer
\* fails the shape check).
GenerateRejected(setItemOk) ==
    /\ phase = "run"
    /\ generating > 0
    /\ generating' = generating - 1
    /\ LET c == UploadCatch("Failed to generate quiz. Please try again with a different PDF.")
       IN  /\ error' = c.error
           /\ Commit(pdfRecords, FALSE, activePdfId, c.game, error # c.error,
                     editingId, isGenerating, aiRequests, setItemOk)
    /\ UNCHANGED <<phase, currentQuiz, currentQuestionIndex,
                   extracting, now, nextUuid>>

\* ----------------------------------------------------- sidebar (App.tsx)
\* handleSelectPdf, from a row of the sidebar (shown in every view).
HandleSelectPdf(i, setItemOk) ==
    /\ phase = "run"
    /\ i \in 1..Len(pdfRecords)
    /\ Commit(pdfRecords, FALSE, pdfRecords[i].id, "dashboard", FALSE,
              editingId, isGenerating, aiRequests, setItemOk)
    /\ UNCHANGED <<phase, currentQuiz, currentQuestionIndex,
                   error, uploadVars, now, nextUuid>>

\* pdfRecords.map(p => p.id === id ? {...p, displayName: newName} : p)
RenamePdf(recs, id, newName) ==
    [k \in 1..Len(recs) |->
        IF recs[k].id = id THEN [recs[k] EXCEPT !.displayName = newName]
        ELSE recs[k]]

\* Sidebar.handleSaveRename on the row i, then handleRenamePdf.
HandleRenamePdf(i, name, setItemOk) ==
    /\ phase = "run"
    /\ i \in 1..Len(pdfRecords)
    /\ Trim(name) # ""
    /\ Commit(RenamePdf(pdfRecords, pdfRecords[i].id, Trim(name)), TRUE,
              activePdfId, gameState, FALSE,
              editingId, isGenerating, aiRequests, setItemOk)
    /\ UNCHANGED <<phase, currentQuiz, currentQuestionIndex,
                   error, uploadVars, now, nextUuid>>

\* pdfRecords.filter(p => p.id !== id)
BadDeletePdf(recs, id) == SelectSeq(recs, LAMBDA p : p.id = id)
DeletePdf(recs, id) == SelectSeq(recs, LAMBDA p : p.id # id)

\* handleDeletePdf on the row i, the confirm dialog accepted.
BadHandleDeletePdf(i, setItemOk) ==
    /\ phase = "run"
    /\ i \in 1..Len(pdfRecords)
    /\ Commit(DeletePdf(pdfRecords, pdfRecords[i].id), TRUE, activePdfId,
              gameState, FALSE, editingId, isGenerating, aiRequests, setItemOk)
    /\ UNCHANGED <<phase, currentQuiz, currentQuestionIndex,
                   error, uploadVars, now, nextUuid>>
HandleDeletePdf(i, setItemOk) ==
    /\ phase = "run"
    /\ i \in 1..Len(pdfRecords)
    /\ LET id == pdfRecords[i].id
           newRecords == DeletePdf(pdfRecords, id)
           active == IF activePdfId = id
                     THEN (IF Len(newRecords) > 0 THEN newRecords[1].id ELSE NULL)
                     ELSE activePdfId
           game == IF activePdfId = id
                   THEN (IF Len(newRecords) > 0 THEN "dashboard" ELSE "upload")
                   ELSE gameState
       IN  Commit(newRecords, TRUE, active, game, FALSE,
                  editingId, isGenerating, aiRequests, setItemOk)
    /\ UNCHANGED <<phase, currentQuiz, currentQuestionIndex,
                   error, uploadVars, now, nextUuid>>

\* --------------------------------------------- quiz editing (App.tsx)
\* What the user may type into QuizEditor's question and answer fields.
ManualTexts == {"", " ", "m"}
\* What generateSingleQuestionFromText resolves to: question and answer are
\* truthy, that is non-empty, strings; a text of whitespace is truthy.
AiResults == { [question |-> "g", answer |-> "g"],
               [question |-> " ", answer |-> "g"] }

\* activePdf, where it is defined.
ActivePdf == pdfRecords[FindIndex(pdfRecords, activePdfId)]
\* activePdf?.quiz || []
ActiveQuiz == IF FindIndex(pdfRecords, activePdfId) = 0 THEN <<>>
              ELSE ActivePdf.quiz

QuizIds(quiz) == {quiz[i].id : i \in 1..Len(quiz)}

\* The updater of handleAddQuestionToPdf, for the activePdfId its closure
\* holds.
AddQuestionToPdf(recs, active, newQuestionData, uuid) ==
    [k \in 1..Len(recs) |->
        IF recs[k].id = active
        THEN [recs[k] EXCEPT !.quiz =
                Append(@, [id |-> uuid,
                           question |-> newQuestionData.question,
                           answer |-> newQuestionData.answer,
                           source_questions |-> newQuestionData.source_questions])]
        ELSE recs[k]]

\* The updater of handleEditQuestionInPdf.
EditQuestionInPdf(recs, active, updatedQuestion) ==
    [k \in 1..Len(recs) |->
        IF recs[k].id = active
        THEN [recs[k] EXCEPT !.quiz =
                [j \in 1..Len(@) |->
                    IF @[j].id = updatedQuestion.id THEN updatedQuestion ELSE @[j]]]
        ELSE recs[k]]

\* The updater of handleDeleteQuestionFromPdf.
DeleteQuestionFromPdf(recs, active, questionId) ==
    [k \in 1..Len(recs) |->
        IF recs[k].id = active
        THEN [recs[k] EXCEPT !.quiz = SelectSeq(@, LAMBDA q : q.id # questionId)]
        ELSE recs[k]]

\* QuizEditor.handleSaveManual with the fields holding q and a, when both
\* are non-blank and no question is being edited: onAddQuestion.
HandleSaveManualAdd(q, a, setItemOk) ==
    /\ phase = "run"
    /\ EditorMounted(pdfRecords, activePdfId, gameState)
    /\ Trim(q) # "" /\ Trim(a) # ""
    /\ editingId = NULL
    /\ nextUuid <= MaxUuid
    /\ nextUuid' = nextUuid + 1
    /\ Commit(AddQuestionToPdf(pdfRecords, activePdfId,
                  [question |-> q, answer |-> a,
                   source_questions |-> "Adicionado manualmente"],
                  RandomUUID(nextUuid)),
              TRUE, activePdfId, gameState, FALSE,
              NULL, isGenerating, aiRequests, setItemOk)
    /\ UNCHANGED <<phase, currentQuiz, currentQuestionIndex,
                   error, uploadVars, now>>

\* QuizEditor.handleSaveManual while a question is being edited.  If the
\* question is no longer in the list shown, it returns early and keeps
\* editingId.
HandleSaveManualEdit(q, a, setItemOk) ==
    /\ phase = "run"
    /\ EditorMounted(pdfRecords, activePdfId, gameState)
    /\ Trim(q) # "" /\ Trim(a) # ""
    /\ editingId # NULL
    /\ IF editingId \in QuizIds(ActivePdf.quiz)
       THEN LET originalQuestion ==
                    CHOOSE x \in {ActivePdf.quiz[j] : j \in 1..Len(ActivePdf.quiz)} :
                        x.id = editingId
            IN  Commit(EditQuestionInPdf(pdfRecords, activePdfId,
                          [id |-> editingId, question |-> q, answer |-> a,
                           source_questions |-> originalQuestion.source_questions]),
                       TRUE, activePdfId, gameState, FALSE,
                       NULL, isGenerating, aiRequests, setItemOk)
       ELSE UNCHANGED <<pdfRecords, activePdfId, gameState, storage, writeFailures,
                       editorVars>>
    /\ UNCHANGED <<phase, currentQuiz, currentQuestionIndex,
                   error, uploadVars, now, nextUuid>>

\* QuizEditor.handleStartEdit on a row of the question list.
HandleStartEdit(j) ==
    /\ phase = "run"
    /\ EditorMounted(pdfRecords, activePdfId, gameState)
    /\ j \in 1..Len(ActivePdf.quiz)
    /\ editingId' = ActivePdf.quiz[j].id
    /\ UNCHANGED <<storage, writeFailures, phase, appVars, uploadVars, aiRequests,
                   isGenerating, now, nextUuid>>

\* QuizEditor.handleCancelEdit (the button is shown while editing).
HandleCancelEdit ==
    /\ phase = "run"
    /\ EditorMounted(pdfRecords, activePdfId, gameState)
    /\ editingId # NULL
    /\ editingId' = NULL
    /\ UNCHANGED <<storage, writeFailures, phase, appVars, uploadVars, aiRequests,
                   isGenerating, now, nextUuid>>

\* QuizEditor.handleDelete on a row, the confirm dialog accepted.
HandleDeleteQuestion(j, setItemOk) ==
    /\ phase = "run"
    /\ EditorMounted(pdfRecords, activePdfId, gameState)
    /\ j \in 1..Len(ActivePdf.quiz)
    /\ Commit(DeleteQuestionFromPdf(pdfRecords, activePdfId, ActivePdf.quiz[j].id),
              TRUE, activePdfId, gameState, FALSE,
              editingId, isGenerating, aiRequests, setItemOk)
    /\ UNCHANGED <<phase, currentQuiz, currentQuestionIndex,
                   error, uploadVars, now, nextUuid>>

\* QuizEditor.handleGenerateWithAi up to its await, with a non-blank text.
\* The onAddQuestion it will call is the handleAddQuestionToPdf of this
\* render, whose closure holds this render's activePdfId.
HandleGenerateWithAi ==
    /\ phase = "run"
    /\ EditorMounted(pdfRecords, activePdfId, gameState)
    /\ ~isGenerating
    /\ Len(aiRequests) < MaxAiRequests
    /\ isGenerating' = TRUE
    /\ aiRequests' = Append(aiRequests, [pdf |-> activePdfId, live |-> TRUE])
    /\ UNCHANGED <<storage, writeFailures, phase, appVars, uploadVars, editingId, now, nextUuid>>

RemoveAt(s, k) == [i \in 1..(Len(s) - 1) |-> IF i < k THEN s[i] ELSE s[i + 1]]

\* generateSingleQuestionFromText resolves for the k-th request in flight:
\* onAddQuestion, then the finally block (setIsGenerating acts only on an
\* editor that is still mounted).
AiResolved(k, result, setItemOk) ==
    /\ phase = "run"
    /\ k \in 1..Len(aiRequests)
    /\ nextUuid <= MaxUuid
    /\ nextUuid' = nextUuid + 1
    /\ Commit(AddQuestionToPdf(pdfRecords, aiRequests[k].pdf,
                  [question |-> result.question, answer |-> result.answer,
                   source_questions |-> "Gerado por IA a partir de texto do usuario"],
                  RandomUUID(nextUuid)),
              TRUE, activePdfId, gameState, FALSE,
              editingId, isGenerating /\ ~aiRequests[k].live,
              RemoveAt(aiRequests, k), setItemOk)
    /\ UNCHANGED <<phase, currentQuiz, currentQuestionIndex,
                   error, uploadVars, now>>

\* generateSingleQuestionFromText rejects for the k-th request in flight.
AiRejected(k) ==
    /\ phase = "run"
    /\ k \in 1..Len(aiRequests)
    /\ isGenerating' = (isGenerating /\ ~aiRequests[k].live)
    /\ aiRequests' = RemoveAt(aiRequests, k)
    /\ UNCHANGED <<storage, writeFailures, phase, appVars, uploadVars, editingId, now, nextUuid>>

\* ---------------------------------------------- quiz session (App.tsx)
\* newQuiz of handleStartQuiz.
NewQuiz(quiz) ==
    [i \in 1..Len(quiz) |->
        [id |-> quiz[i].id, question |-> quiz[i].question,
         answer |-> quiz[i].answer,
         source_questions |-> quiz[i].source_questions,
         isRevealed |-> FALSE, status |-> UNANSWERED]]

\* What handleStartQuiz leaves in currentQuiz, currentQuestionIndex and
\* gameState: with no active Material or no question it alerts and returns.
BadStartQuiz(recs, active, cur, index, game) ==
    LET s == FindIndex(recs, active)
    IN  [currentQuiz |-> IF s = 0 THEN <<>> ELSE NewQuiz(recs[s].quiz),
         currentQuestionIndex |-> 0, gameState |-> "quiz"]
StartQuiz(recs, active, cur, index, game) ==
    LET s == FindIndex(recs, active)
    IN  IF s = 0 \/ Len(recs[IF s = 0 THEN 1 ELSE s].quiz) = 0
        THEN [currentQuiz |-> cur, currentQuestionIndex |-> index,
              gameState |-> game]
        ELSE [currentQuiz |-> NewQuiz(recs[s].quiz),
              currentQuestionIndex |-> 0, gameState |-> "quiz"]

\* handleStartQuiz, from DashboardView's button.
HandleStartQuiz(setItemOk) ==
    /\ phase = "run"
    /\ EditorMounted(pdfRecords, activePdfId, gameState)
    /\ Len(ActivePdf.quizAttempts) < MaxAttempts
    /\ LET r == StartQuiz(pdfRecords, activePdfId, currentQuiz,
                          currentQuestionIndex, gameState)
       IN  /\ currentQuiz' = r.currentQuiz
           /\ currentQuestionIndex' = r.currentQuestionIndex
           /\ Commit(pdfRecords, FALSE, activePdfId, r.gameState,
                     r.currentQuiz # currentQuiz
                        \/ r.currentQuestionIndex # currentQuestionIndex,
                     editingId, isGenerating, aiRequests, setItemOk)
    /\ UNCHANGED <<phase, error, uploadVars, now, nextUuid>>

\* renderContent shows QuizCard.
QuizCardShown == gameState = "quiz" /\ Len(currentQuiz) > 0

\* The question QuizCard shows (currentQuestionIndex counts from 0).
Current == currentQuiz[currentQuestionIndex + 1]

\* The updater of handleRevealAnswer.
RevealAnswer(prev, index) ==
    [i \in 1..Len(prev) |->
        IF i - 1 = index THEN [prev[i] EXCEPT !.isRevealed = TRUE] ELSE prev[i]]

\* The updater of handleAnswer.
BadAnswer(prev, index, status) ==
    [i \in 1..Len(prev) |-> [prev[i] EXCEPT !.status = status]]
Answer(prev, index, status) ==
    [i \in 1..Len(prev) |->
        IF i - 1 = index THEN [prev[i] EXCEPT !.status = status] ELSE prev[i]]

\* handleRevealAnswer: QuizCard shows the button until the answer is revealed.
HandleRevealAnswer(setItemOk) ==
    /\ phase = "run"
    /\ QuizCardShown
    /\ ~Current.isRevealed
    /\ currentQuiz' = RevealAnswer(currentQuiz, currentQuestionIndex)
    /\ Commit(pdfRecords, FALSE, activePdfId, gameState, TRUE,
              editingId, isGenerating, aiRequests, setItemOk)
    /\ UNCHANGED <<phase, currentQuestionIndex, error,
                   uploadVars, now, nextUuid>>

\* handleAnswer: QuizCard shows "Errei" and "Acertei" once the answer is
\* revealed.
HandleAnswer(status, setItemOk) ==
    /\ phase = "run"
    /\ QuizCardShown
    /\ Current.isRevealed
    /\ status \in {CORRECT, INCORRECT}
    /\ currentQuiz' = Answer(currentQuiz, currentQuestionIndex, status)
    /\ Commit(pdfRecords, FALSE, activePdfId, gameState,
              Current.status # status,
              editingId, isGenerating, aiRequests, setItemOk)
    /\ UNCHANGED <<phase, currentQuestionIndex, error,
                   uploadVars, now, nextUuid>>

\* newAttempt of handleNextQuestion.
BadNewAttempt(quiz, t) ==
    [date |-> t,
     answers |-> [i \in 1..Len(ActiveQuiz) |->
                     IF i <= Len(quiz) THEN quiz[i].status ELSE UNANSWERED]]
NewAttempt(quiz, t) ==
    [date |-> t, answers |-> [i \in 1..Len(quiz) |-> quiz[i].status]]

\* The updater of handleNextQuestion's else branch.
AppendAttempt(recs, active, newAttempt) ==
    [k \in 1..Len(recs) |->
        IF recs[k].id = active
        THEN [recs[k] EXCEPT !.quizAttempts = Append(@, newAttempt)]
        ELSE recs[k]]

\* handleNextQuestion: QuizCard enables "Proxima" once the answer is revealed
\* and a status is set.
HandleNextQuestion(setItemOk) ==
    /\ phase = "run"
    /\ QuizCardShown
    /\ Current.isRevealed
    /\ Current.status # UNANSWERED
    /\ IF currentQuestionIndex < Len(currentQuiz) - 1
       THEN /\ currentQuestionIndex' = currentQuestionIndex + 1
            /\ Commit(pdfRecords, FALSE, activePdfId, gameState, TRUE,
                      editingId, isGenerating, aiRequests, setItemOk)
       ELSE /\ currentQuestionIndex' = currentQuestionIndex
            /\ Commit(AppendAttempt(pdfRecords, activePdfId,
                                    NewAttempt(currentQuiz, now)),
                      TRUE, activePdfId, "results", FALSE,
                      editingId, isGenerating, aiRequests, setItemOk)
    /\ UNCHANGED <<phase, currentQuiz, error, uploadVars,
                   now, nextUuid>>

\* ResultsView's "Voltar ao Painel"; the view is rendered when the active
\* Material has an attempt.
HandleBackToDashboard(setItemOk) ==
    /\ phase = "run"
    /\ gameState = "results"
    /\ FindIndex(pdfRecords, activePdfId) # 0
    /\ Len(ActivePdf.quizAttempts) > 0
    /\ Commit(pdfRecords, FALSE, activePdfId, "dashboard", FALSE,
              editingId, isGenerating, aiRequests, setItemOk)
    /\ UNCHANGED <<phase, currentQuiz, currentQuestionIndex,
                   error, uploadVars, now, nextUuid>>

\* ----------------------------------------------------- specifications
PageEvents ==
    \/ \E m, e \in BOOLEAN : Load(m, e)
    \/ Unload

UploadEvents ==
    \/ \E ok \in BOOLEAN : HandleAddNew(ok)
    \/ \E ok \in BOOLEAN : HandleFileUpload(ok)
    \/ \E ok \in BOOLEAN : ExtractResolved(ok)
    \/ \E ok \in BOOLEAN : ExtractRejected(ok)
    \/ \E d \in GenData, ok \in BOOLEAN : GenerateResolved(d, ok)
    \/ \E ok \in BOOLEAN : GenerateRejected(ok)

SidebarEvents ==
    \/ \E i \in 1..Len(pdfRecords), ok \in BOOLEAN : HandleSelectPdf(i, ok)
    \/ \E i \in 1..Len(pdfRecords), n \in {" ", "n"}, ok \in BOOLEAN :
            HandleRenamePdf(i, n, ok)
    \/ \E i \in 1..Len(pdfRecords), ok \in BOOLEAN : HandleDeletePdf(i, ok)

EditorEvents ==
    \/ \E q, a \in ManualTexts, ok \in BOOLEAN : HandleSaveManualAdd(q, a, ok)
    \/ \E q, a \in ManualTexts, ok \in BOOLEAN : HandleSaveManualEdit(q, a, ok)
    \/ \E j \in 1..Len(ActiveQuiz) : HandleStartEdit(j)
    \/ HandleCancelEdit
    \/ \E j \in 1..Len(ActiveQuiz), ok \in BOOLEAN : HandleDeleteQuestion(j, ok)

AiEvents ==
    \/ HandleGenerateWithAi
    \/ \E k \in 1..MaxAiRequests, r \in AiResults, ok \in BOOLEAN :
            AiResolved(k, r, ok)
    \/ \E k \in 1..MaxAiRequests : AiRejected(k)

SessionEvents ==
    \/ \E ok \in BOOLEAN : HandleStartQuiz(ok)
    \/ \E ok \in BOOLEAN : HandleRevealAnswer(ok)
    \/ \E s \in {CORRECT, INCORRECT}, ok \in BOOLEAN : HandleAnswer(s, ok)
    \/ \E ok \in BOOLEAN : HandleNextQuestion(ok)
    \/ \E ok \in BOOLEAN : HandleBackToDashboard(ok)

\* The controller on a fresh browser profile: uploads, the sidebar and quiz
\* sessions, with a storage medium that may reject writes.
Init == InitWith(NoItem, 0)
Next == PageEvents \/ Tick \/ UploadEvents \/ SidebarEvents \/ SessionEvents
Spec == Init /\ [][Next]_vars

\* What earlier sessions of the page left in localStorage.  A stored question
\* carries a UUID drawn before this run (RandomUUID(n) with n <= 0) or, if a
\* version of the application without question ids wrote it, none.
StoredQuestion(id) ==
    [id |-> id, question |-> "q", answer |-> "a", source_questions |-> "s"]
StoredRecord(t, quiz) ==
    [id |-> PdfId(t), fileName |-> FileName, displayName |-> "a",
     summary |-> "sum", quiz |-> quiz, quizAttempts |-> <<>>, createdAt |-> t]

\* One Material with one question, written by the current version.
MigratedBlob == Stringify(<<StoredRecord(0, <<StoredQuestion(RandomUUID(0))>>)>>)
\* One Material with two questions, the first written without an id.
OldBlob ==
    Stringify(<<StoredRecord(0, <<StoredQuestion(NULL), StoredQuestion(RandomUUID(0))>>)>>)

\* Quiz lists of up to two stored questions with distinct ids where present.
StoredQuizzes ==
    {<<>>}
    \cup { <<StoredQuestion(i)>> : i \in {NULL, RandomUUID(0)} }
    \cup { <<StoredQuestion(i), StoredQuestion(j)>> :
             i \in {NULL, RandomUUID(0)}, j \in {NULL, RandomUUID(-1)} }
\* Every item the store specification starts from: none, an unreadable one,
\* and collections of up to two Materials whose migration fits MaxUuid.
StoreBlobs ==
    {NoItem, Corrupt, Stringify(<<>>)}
    \cup { Stringify(<<StoredRecord(0, q)>>) : q \in StoredQuizzes }
    \cup { b \in { Stringify(<<StoredRecord(1, q1), StoredRecord(0, q2)>>) :
                      q1 \in StoredQuizzes, q2 \in StoredQuizzes } :
             TotalNulls(Parse(b)) <= MaxUuid }

\* Single-question requests and quiz sessions on a stored Material, with a
\* storage medium that may reject writes.
InitAi == InitWith(MigratedBlob, 0)
NextAi == PageEvents \/ SidebarEvents \/ AiEvents \/ SessionEvents
SpecAi == InitAi /\ [][NextAi]_vars

\* The repository: migration at load, uploads, the sidebar and the quiz
\* editor, with a storage medium that accepts every write.
InitRepo == \E b \in {NoItem, OldBlob} : InitWith(b, MaxWriteFailures)
NextRepo == PageEvents \/ Tick \/ UploadEvents \/ SidebarEvents \/ EditorEvents \/ AiEvents
SpecRepo == InitRepo /\ [][NextRepo]_vars

\* Persistence: every mutation of the repository (uploads, the sidebar, the
\* quiz editor, quiz sessions) and reloads, with a storage medium that
\* accepts every write.
InitPersist == InitWith(NoItem, MaxWriteFailures)
NextPersist ==
    PageEvents \/ UploadEvents \/ SidebarEvents \/ EditorEvents \/ SessionEvents
SpecPersist == InitPersist /\ [][NextPersist]_vars

\* The persistent store: loads and reloads of every stored item, and the
\* sidebar's mutations, with a storage medium that may reject writes.
InitStore == \E b \in StoreBlobs : InitWith(b, 0)
NextStore == PageEvents \/ SidebarEvents
SpecStore == InitStore /\ [][NextStore]_vars

\* ------------------------------------------------------------ properties
AttemptsOf(recs) == [k \in 1..Len(recs) |-> recs[k].quizAttempts]

\* new is old, or old with one entry appended.
AppendedOrSame(old, new) ==
    \/ new = old
    \/ Len(new) = Len(old) + 1 /\ SubSeq(new, 1, Len(old)) = old

\* a is b with some entries left out, the order kept.
RECURSIVE IsSubsequence(_, _)
IsSubsequence(a, b) ==
    IF Len(a) = 0 THEN TRUE
    ELSE IF Len(b) = 0 THEN FALSE
    ELSE IF Head(a) = Head(b) THEN IsSubsequence(Tail(a), Tail(b))
    ELSE IsSubsequence(a, Tail(b))

\* A step of the running page (not its load or unload).
Running == phase = "run" /\ phase' = "run"

\* The step in which a session completes: handleNextQuestion on the last
\* question.
Completes == Running /\ gameState = "quiz" /\ gameState' = "results"

C1_StepAppendOnly ==
    Running =>
        \/ /\ Len(pdfRecords') = Len(pdfRecords)
           /\ \A k \in 1..Len(pdfRecords) :
                AppendedOrSame(pdfRecords[k].quizAttempts, pdfRecords'[k].quizAttempts)
        \/ /\ Len(pdfRecords') = Len(pdfRecords) + 1
           /\ pdfRecords'[1].quizAttempts = <<>>
           /\ Tail(AttemptsOf(pdfRecords')) = AttemptsOf(pdfRecords)
        \/ /\ Len(pdfRecords') < Len(pdfRecords)
           /\ IsSubsequence(AttemptsOf(pdfRecords'), AttemptsOf(pdfRecords))

C1_CompletionAppendsToOne ==
    Completes =>
        LET s == FindIndex(pdfRecords, activePdfId)
        IN  /\ s # 0
            /\ Len(pdfRecords') = Len(pdfRecords)
            /\ Len(pdfRecords'[s].quizAttempts) = Len(pdfRecords[s].quizAttempts) + 1
            /\ \A k \in 1..Len(pdfRecords) :
                  k # s => pdfRecords'[k].quizAttempts = pdfRecords[k].quizAttempts

\* C1: attempt history is append-only.  In every step of the running page,
\* each Material that stays in the store has its quizAttempts unchanged or
\* extended by one entry at the end; and the step that completes a session
\* appends one Attempt to the Material the session was started from (the
\* first Material with the active id) and changes the quizAttempts of no
\* other Material.
C1_AttemptsAppendOnly == [][C1_StepAppendOnly /\ C1_CompletionAppendsToOne]_vars

\* C3: at most one upload (extraction and generation) is ever outstanding.
C3_AtMostOneUpload == extracting + generating <= 1

\* The step in which generateQuizAndSummaryFromText resolves for an upload
\* whose loading view the user has left.
LateResult ==
    /\ gameState # "loading"
    /\ \E d \in GenData, ok \in BOOLEAN : GenerateResolved(d, ok)

\* C4: the result of an upload that arrives after the user left the loading
\* view is discarded: it creates no Material and changes neither the active
\* Material nor the view mode nor the quiz session.
C4_LateResultDiscarded ==
    [][LateResult =>
          /\ pdfRecords' = pdfRecords
          /\ activePdfId' = activePdfId
          /\ gameState' = gameState
          /\ currentQuiz' = currentQuiz
          /\ currentQuestionIndex' = currentQuestionIndex]_vars

IdsOf(recs) == [k \in 1..Len(recs) |-> recs[k].id]

C6_Unique ==
    \A i, j \in 1..Len(pdfRecords) :
        i # j => pdfRecords[i].id # pdfRecords[j].id

C6_IdsKept ==
    Running =>
        \/ IdsOf(pdfRecords') = IdsOf(pdfRecords)
        \/ /\ Len(pdfRecords') = Len(pdfRecords) + 1
           /\ Tail(IdsOf(pdfRecords')) = IdsOf(pdfRecords)
        \/ IsSubsequence(IdsOf(pdfRecords'), IdsOf(pdfRecords))

\* C6: Material ids are unique across the store in every reachable state,
\* and a Material's id never changes after its creation.
C6_MaterialIdsUnique == []C6_Unique /\ [][C6_IdsKept]_vars

\* The step in which the extraction or the generation of an upload fails.
UploadFails ==
    \E ok \in BOOLEAN : ExtractRejected(ok) \/ GenerateRejected(ok)

\* C7: when the extraction or the generation of an upload fails, the
\* controller ends in upload mode with an error message set, the collection
\* in memory is the one it was, and the persisted blob is the one it was or
\* the serialization of that same collection: no Material is created.
C7_FailureCreatesNothing ==
    [][UploadFails =>
          /\ gameState' = "upload"
          /\ error' # NoError
          /\ pdfRecords' = pdfRecords
          /\ storage' \in {storage, Stringify(pdfRecords)}]_vars

\* An upload has failed while the store holds a Material.
C7_Witness ==
    /\ phase = "run"
    /\ gameState = "upload"
    /\ error # NoError
    /\ Len(pdfRecords) > 0

\* The step in which a session starts: handleStartQuiz.
Starts == Running /\ gameState # "quiz" /\ gameState' = "quiz"
\* A step taken within a session.
InSession == Running /\ gameState = "quiz" /\ gameState' = "quiz"

\* The fields a QuestionState copies from its QuizQuestion.
QuestionOf(q) ==
    [id |-> q.id, question |-> q.question, answer |-> q.answer,
     source_questions |-> q.source_questions]

C2_Start ==
    Starts =>
        /\ Len(ActiveQuiz) >= 1
        /\ currentQuestionIndex' = 0
        /\ Len(currentQuiz') = Len(ActiveQuiz)
        /\ \A i \in 1..Len(ActiveQuiz) :
              /\ QuestionOf(currentQuiz'[i]) = ActiveQuiz[i]
              /\ ~currentQuiz'[i].isRevealed
              /\ currentQuiz'[i].status = UNANSWERED

C2_During ==
    InSession =>
        /\ Len(currentQuiz') = Len(currentQuiz)
        /\ \A i \in 1..Len(currentQuiz) :
              /\ QuestionOf(currentQuiz'[i]) = QuestionOf(currentQuiz[i])
              /\ i # currentQuestionIndex + 1 => currentQuiz'[i] = currentQuiz[i]
        /\ currentQuestionIndex' \in {currentQuestionIndex, currentQuestionIndex + 1}
        /\ currentQuestionIndex' < Len(currentQuiz)
        /\ currentQuestionIndex' # currentQuestionIndex => currentQuiz' = currentQuiz

C2_Complete ==
    Completes =>
        LET s == FindIndex(pdfRecords, activePdfId)
            attempts == pdfRecords'[s].quizAttempts
        IN  /\ currentQuestionIndex = Len(currentQuiz) - 1
            /\ currentQuiz' = currentQuiz
            /\ s # 0
            /\ Len(attempts) > 0
            /\ Len(attempts[Len(attempts)].answers) = Len(currentQuiz)
            /\ \A i \in 1..Len(currentQuiz) :
                  attempts[Len(attempts)].answers[i] = currentQuiz[i].status

\* C2: a session started on a Material with n >= 1 questions holds a
\* snapshot of those n questions, in order, all unrevealed and UNANSWERED, at
\* index 0; within the session the snapshot's questions and length never
\* change, only the current question's state does, and the index moves one
\* forward at a time and stays below n; the session completes from index
\* n - 1 and the Attempt it appends has exactly n answers, answers[i] being
\* the status of the snapshot's i-th question, whatever has happened to the
\* Material's quiz list since the session started.
C2_SessionYieldsSnapshotAnswers == [][C2_Start /\ C2_During /\ C2_Complete]_vars

\* A session over two questions has completed with different answers on a
\* Material whose quiz list has grown to three since the session started.
C2_Witness ==
    /\ phase = "run"
    /\ gameState = "results"
    /\ Len(currentQuiz) = 2
    /\ Len(ActiveQuiz) = 3
    /\ ActivePdf.quizAttempts[Len(ActivePdf.quizAttempts)].answers
          = <<CORRECT, INCORRECT>>

\* C5: while a quiz session is active, the quiz list of the Material being
\* quizzed does not change.
C5_QuizFrozenInSession == [][InSession => ActiveQuiz' = ActiveQuiz]_vars

QuestionIds(rec) == [j \in 1..Len(rec.quiz) |-> rec.quiz[j].id]
QuestionIdLists(recs) == [k \in 1..Len(recs) |-> QuestionIds(recs[k])]

C8_Distinct ==
    \A k \in 1..Len(pdfRecords) :
        \A i, j \in 1..Len(pdfRecords[k].quiz) :
            /\ pdfRecords[k].quiz[i].id # NULL
            /\ i # j => pdfRecords[k].quiz[i].id # pdfRecords[k].quiz[j].id

\* ids is old with one id appended, or old with some ids left out.
IdsKept(old, ids) ==
    \/ AppendedOrSame(old, ids)
    \/ IsSubsequence(ids, old)

C8_IdsKept ==
    Running =>
        \/ /\ Len(pdfRecords') = Len(pdfRecords)
           /\ \A k \in 1..Len(pdfRecords) :
                IdsKept(QuestionIds(pdfRecords[k]), QuestionIds(pdfRecords'[k]))
        \/ /\ Len(pdfRecords') = Len(pdfRecords) + 1
           /\ Tail(QuestionIdLists(pdfRecords')) = QuestionIdLists(pdfRecords)
        \/ /\ Len(pdfRecords') < Len(pdfRecords)
           /\ IsSubsequence(QuestionIdLists(pdfRecords'), QuestionIdLists(pdfRecords))

\* The step in which the page loads.
LoadStep == phase = "boot" /\ phase' = "run"

\* The load keeps every id the stored questions have.
C8_LoadKeepsIds ==
    (LoadStep /\ storage.kind = "json") =>
        /\ Len(pdfRecords') = Len(Parse(storage))
        /\ \A k \in 1..Len(pdfRecords') :
              /\ Len(pdfRecords'[k].quiz) = Len(Parse(storage)[k].quiz)
              /\ \A j \in 1..Len(pdfRecords'[k].quiz) :
                    Parse(storage)[k].quiz[j].id # NULL
                        => pdfRecords'[k].quiz[j].id = Parse(storage)[k].quiz[j].id

\* C8: in every Material the questions have ids, pairwise distinct, and the
\* ids never change: a step leaves a Material's list of question ids as it
\* is, appends one id or leaves some out, and a load keeps every stored id.
C8_QuestionIdsDistinct ==
    []C8_Distinct /\ [][C8_IdsKept /\ C8_LoadKeepsIds]_vars

\* A Material holds an edited question (its text changed, its provenance
\* kept) beside another question.
C8_Witness ==
    /\ phase = "run"
    /\ \E k \in 1..Len(pdfRecords) :
          /\ Len(pdfRecords[k].quiz) >= 2
          /\ \E j \in 1..Len(pdfRecords[k].quiz) :
                /\ pdfRecords[k].quiz[j].question = "m"
                /\ pdfRecords[k].quiz[j].source_questions = "s"

\* Every field of a record but its quiz list.
RecordFrame(rec) ==
    [id |-> rec.id, fileName |-> rec.fileName, displayName |-> rec.displayName,
     summary |-> rec.summary, quizAttempts |-> rec.quizAttempts,
     createdAt |-> rec.createdAt]
\* Every field of a stored question but its id.
QuestionFrame(q) ==
    [question |-> q.question, answer |-> q.answer,
     source_questions |-> q.source_questions]

\* The first load assigns an id to exactly the questions without one,
\* changes nothing else and writes the result back.
C9_FirstLoad ==
    (LoadStep /\ storage.kind = "json") =>
        LET old == Parse(storage)
        IN  /\ Len(pdfRecords') = Len(old)
            /\ \A r \in 1..Len(old) :
                  /\ RecordFrame(pdfRecords'[r]) = RecordFrame(old[r])
                  /\ Len(pdfRecords'[r].quiz) = Len(old[r].quiz)
                  /\ \A q \in 1..Len(old[r].quiz) :
                        /\ QuestionFrame(pdfRecords'[r].quiz[q])
                              = QuestionFrame(old[r].quiz[q])
                        /\ pdfRecords'[r].quiz[q].id # NULL
                        /\ old[r].quiz[q].id # NULL
                              => pdfRecords'[r].quiz[q].id = old[r].quiz[q].id
            /\ storage'.kind = "json"
            /\ Parse(storage') = pdfRecords'

\* A load of a migrated blob returns it and draws no id.
C9_SecondLoad ==
    (LoadStep /\ storage.kind = "json" /\ ~MigrationNeeded(Parse(storage))) =>
        /\ pdfRecords' = Parse(storage)
        /\ nextUuid' = nextUuid
        /\ storage' = storage

\* C9: load-time migration is idempotent and non-destructive: the first load
\* of a persisted blob assigns an id to exactly the questions whose id is
\* null or absent, leaves every other field and the order and number of
\* Materials and questions unchanged, and writes the result back; a load of
\* the resulting blob returns the same collection, reassigns no id and
\* performs no migration write.
C9_MigrationNonDestructive == [][C9_FirstLoad /\ C9_SecondLoad]_vars

\* A step in which localStorage.setItem threw.
WriteFails == writeFailures' > writeFailures
\* The collection the application works with, and the view it shows.
InMemory == <<pdfRecords, activePdfId, gameState>>

\* C10: a storage write failure, during the migration write-back inside load
\* or during a later save, leaves the in-memory collection intact: the step
\* ends with the collection it could have ended with had every write of the
\* step succeeded.
C10_WriteFailureAbsorbed ==
    [][WriteFails =>
          \E m \in {InMemory'} :
              ENABLED (NextStore /\ writeFailures' = writeFailures /\ InMemory' = m)]_vars

\* C11: persistence round-trip.  With no storage write failure, whenever
\* the page is running (every mutation's write effect has run) the persisted
\* item is JSON that needs no migration and loads back to a collection equal
\* to the one in memory, the empty collection included.
C11_RoundTrip ==
    phase = "run" =>
        /\ storage.kind = "json"
        /\ ~MigrationNeeded(Parse(storage))
        /\ InitializerValue(storage, nextUuid, TRUE) = pdfRecords

\* Materials were created and the last one has been deleted: the store in
\* memory and the persisted collection are both empty.
C11_Witness ==
    /\ phase = "run"
    /\ nextUuid > 1
    /\ pdfRecords = <<>>
    /\ storage = Stringify(<<>>)

C12_EmptyOnAbsentOrCorrupt ==
    (LoadStep /\ storage.kind \in {"none", "corrupt"}) =>
        /\ pdfRecords' = <<>>
        /\ activePdfId' = NULL
        /\ gameState' = "upload"

C12_LoadDoesNotRaise ==
    (phase = "boot" /\ storage.kind \in {"none", "corrupt"}) =>
        ENABLED Load(TRUE, TRUE)

\* C12: when the key is absent or its item cannot be deserialized, the load
\* completes (it does not raise) and the page starts with the empty
\* collection, no active Material, in upload mode.
C12_LoadFallsBackToEmpty ==
    []C12_LoadDoesNotRaise /\ [][C12_EmptyOnAbsentOrCorrupt]_vars

\* The page runs on the empty collection while localStorage still holds the
\* item that could not be deserialized.
C12_Witness ==
    /\ phase = "run"
    /\ storage = Corrupt
    /\ pdfRecords = <<>>
    /\ gameState = "upload"

\* An id no Material of the model has.
AbsentId == PdfId(MaxClock + 1)

C13_AbsentIdNoOp == DeletePdf(pdfRecords, AbsentId) = pdfRecords

C13_Delete ==
    \A i \in 1..Len(pdfRecords) :
        (\E ok \in BOOLEAN : HandleDeletePdf(i, ok)) =>
            LET id == pdfRecords[i].id
                gone == Cardinality({k \in 1..Len(pdfRecords) : pdfRecords[k].id = id})
            IN  /\ \A k \in 1..Len(pdfRecords') : pdfRecords'[k].id # id
                /\ IsSubsequence(pdfRecords', pdfRecords)
                /\ Len(pdfRecords') = Len(pdfRecords) - gone
                /\ activePdfId' # id
                /\ activePdfId = id => gameState' \notin {"quiz", "results"}
                /\ gameState' \in {"dashboard", "quiz", "results"}
                      => FindIndex(pdfRecords', activePdfId') # 0

\* C13: after handleDeletePdf(id) no Material with that id is in the store,
\* the other Materials are unchanged and keep their order, the deleted
\* Material is not the active one, no quiz or results view of it is shown
\* (a view of a Material shows one that is in the store), and deleting an id
\* no Material has changes nothing.
C13_DeleteRemovesMaterial == []C13_AbsentIdNoOp /\ [][C13_Delete]_vars

\* A Material with questions was created and deleted; another one, with no
\* question, is left and shown.
C13_Witness ==
    /\ phase = "run"
    /\ nextUuid > 1
    /\ gameState = "dashboard"
    /\ Len(pdfRecords) = 1
    /\ Len(pdfRecords[1].quiz) = 0

\* The source_questions the two paths of addQuestion give their questions.
AddedSources ==
    {"Adicionado manualmente", "Gerado por IA a partir de texto do usuario"}

\* C14: no stored question added through addQuestion (manual entry or AI
\* single-question generation) has a question or an answer that is empty
\* after trimming whitespace.
C14_NoBlankAddedQuestion ==
    \A k \in 1..Len(pdfRecords) :
        \A j \in 1..Len(pdfRecords[k].quiz) :
            pdfRecords[k].quiz[j].source_questions \in AddedSources
                => /\ Trim(pdfRecords[k].quiz[j].question) # ""
                   /\ Trim(pdfRecords[k].quiz[j].answer) # ""

\* The step of handleSaveManual while a question is being edited.
EditStep == \E q, a \in ManualTexts, ok \in BOOLEAN : HandleSaveManualEdit(q, a, ok)

C15_Edit ==
    EditStep =>
        LET s == FindIndex(pdfRecords, activePdfId)
        IN  /\ Len(pdfRecords') = Len(pdfRecords)
            /\ \A k \in 1..Len(pdfRecords) : k # s => pdfRecords'[k] = pdfRecords[k]
            /\ RecordFrame(pdfRecords'[s]) = RecordFrame(pdfRecords[s])
            /\ Len(pdfRecords'[s].quiz) = Len(pdfRecords[s].quiz)
            /\ \A j \in 1..Len(pdfRecords[s].quiz) :
                  IF pdfRecords[s].quiz[j].id = editingId
                  THEN /\ pdfRecords'[s].quiz[j].id = editingId
                       /\ pdfRecords'[s].quiz[j].source_questions
                             = pdfRecords[s].quiz[j].source_questions
                  ELSE pdfRecords'[s].quiz[j] = pdfRecords[s].quiz[j]
            /\ editingId \notin QuizIds(pdfRecords[s].quiz) => pdfRecords' = pdfRecords

\* C15: editQuestion on the active Material changes only the question and
\* answer text of the question whose id is the edited one: that question
\* keeps its id, its position and its source_questions; every other
\* question, the list length, the Material's other fields and every other
\* Material are unchanged; when no question has that id nothing changes.
C15_EditChangesOneQuestion == [][C15_Edit]_vars

\* attempt.answers.filter(a => a === AnswerStatus.CORRECT).length
CorrectAnswers(attempt) ==
    Cardinality({i \in 1..Len(attempt.answers) : attempt.answers[i] = CORRECT})

\* A score, (correct / total) * 100, kept as a fraction.
Score(correct, total) ==
    IF total > 0 THEN [num |-> correct * 100, den |-> total]
    ELSE [num |-> 0, den |-> 1]
SameScore(a, b) == a.num * b.den = b.num * a.den

\* The score ResultsView shows: renderContent passes it the last attempt of
\* the active Material and, as totalQuestions, the length of that Material's
\* quiz list.
ResultsScore(attempt, totalQuestions) == Score(CorrectAnswers(attempt), totalQuestions)
\* The score of a row of DashboardView's attempt history.
HistoryScore(attempt) == Score(CorrectAnswers(attempt), Len(attempt.answers))

\* C16: the score shown for an Attempt, on the results screen and in the
\* attempt history, is 100 * (number of CORRECT answers) / (number of
\* answers of the Attempt), and 0 when the Attempt has no answer.
C16_ScoreOverAnswers ==
    (phase = "run" /\ FindIndex(pdfRecords, activePdfId) # 0) =>
        LET attempts == ActivePdf.quizAttempts
            Expected(a) == IF Len(a.answers) = 0 THEN [num |-> 0, den |-> 1]
                           ELSE [num |-> 100 * CorrectAnswers(a), den |-> Len(a.answers)]
        IN  /\ \A k \in 1..Len(attempts) :
                  SameScore(HistoryScore(attempts[k]), Expected(attempts[k]))
            /\ (gameState = "results" /\ Len(attempts) > 0) =>
                  SameScore(ResultsScore(attempts[Len(attempts)], Len(ActiveQuiz)),
                            Expected(attempts[Len(attempts)]))

\* The records handleNextQuestion leaves when it is called with the session
\* state quiz, index: it has no other condition than the index.
NextQuestionRecords(recs, active, quiz, index, t) ==
    IF index < Len(quiz) - 1 THEN recs
    ELSE AppendAttempt(recs, active, NewAttempt(quiz, t))

\* C17: reveal, answer and advance called when the session is completed or
\* when no session is active change no state; a second advance after the
\* last question appends no second Attempt.
C17_NoEffectOutsideSession ==
    (phase = "run" /\ gameState # "quiz") =>
        /\ RevealAnswer(currentQuiz, currentQuestionIndex) = currentQuiz
        /\ \A st \in {CORRECT, INCORRECT} :
              Answer(currentQuiz, currentQuestionIndex, st) = currentQuiz
        /\ NextQuestionRecords(pdfRecords, activePdfId, currentQuiz,
                               currentQuestionIndex, now) = pdfRecords

C18_RejectedStartChangesNothing ==
    (phase = "run" /\ Len(ActiveQuiz) = 0) =>
        StartQuiz(pdfRecords, activePdfId, currentQuiz,
                  currentQuestionIndex, gameState)
            = [currentQuiz |-> currentQuiz,
               currentQuestionIndex |-> currentQuestionIndex,
               gameState |-> gameState]

\* A click on DashboardView's start button.
StartCall == \E ok \in BOOLEAN : HandleStartQuiz(ok)

C18_StartsOnQuestions ==
    /\ Starts => Len(ActiveQuiz) >= 1 /\ Len(currentQuiz') >= 1
    /\ StartCall =>
          /\ pdfRecords' = pdfRecords
          /\ Len(ActiveQuiz) = 0 =>
                UNCHANGED <<currentQuiz, currentQuestionIndex, gameState>>

\* C18: starting a quiz when no Material is active or when the active
\* Material has no question is rejected: handleStartQuiz leaves the session
\* snapshot, the index and the view mode as they are; no step makes the view
\* quiz on an empty quiz list, and no Attempt is appended.
C18_EmptyQuizRejected ==
    []C18_RejectedStartChangesNothing /\ [][C18_StartsOnQuestions]_vars

\* The dashboard shows a Material with no question after a session on
\* another Material has left its snapshot behind.
C18_Witness ==
    /\ phase = "run"
    /\ gameState = "dashboard"
    /\ FindIndex(pdfRecords, activePdfId) # 0
    /\ Len(ActiveQuiz) = 0
    /\ Len(currentQuiz) > 0

\* The step of a click on the header's add-new button.
AddNewStep == \E ok \in BOOLEAN : HandleAddNew(ok)

\* C19: after handleAddNew and the effects that depend on it, the view mode
\* is upload and no Material is active, whether the store is empty or holds
\* Materials.
C19_AddNewShowsUpload ==
    [][AddNewStep => (gameState' = "upload" /\ activePdfId' = NULL)]_vars

C20_Session ==
    (phase = "run" /\ gameState = "quiz") =>
        /\ currentQuestionIndex >= 0
        /\ currentQuestionIndex < Len(currentQuiz)
        /\ \A i \in 1..Len(currentQuiz) :
              /\ currentQuiz[i].status \in {CORRECT, INCORRECT}
                    => currentQuiz[i].isRevealed
              /\ i <= currentQuestionIndex
                    => currentQuiz[i].status # UNANSWERED

C20_Attempts ==
    \A k \in 1..Len(pdfRecords) :
        \A n \in 1..Len(pdfRecords[k].quizAttempts) :
            LET answers == pdfRecords[k].quizAttempts[n].answers
            IN  /\ Len(answers) >= 1
                /\ \A i \in 1..Len(answers) : answers[i] \in {CORRECT, INCORRECT}

\* C20: in the quiz flow as QuizCard exposes it, in every session state a
\* question with status CORRECT or INCORRECT is revealed, every question
\* before the current index is answered and 0 <= index < snapshot length;
\* every Attempt in the store has at least one answer and only CORRECT or
\* INCORRECT answers.
C20_SessionWellFormed == C20_Session /\ C20_Attempts

\* A session is at its second question, which is answered, on a store that
\* holds a recorded Attempt.
C20_Witness ==
    /\ phase = "run"
    /\ gameState = "quiz"
    /\ currentQuestionIndex = 1
    /\ Len(currentQuiz) = 2
    /\ currentQuiz[2].status = INCORRECT
    /\ \E k \in 1..Len(pdfRecords) : Len(pdfRecords[k].quizAttempts) > 0

\* C21: in every state the running page settles in, the active Material id
\* is null or the id of a Material in the store; in the views dashboard,
\* quiz and results the active Material exists; in results it has an
\* Attempt, the last one holding the statuses of the session just completed.
C21_ActiveMaterialExists ==
    phase = "run" =>
        /\ activePdfId = NULL \/ FindIndex(pdfRecords, activePdfId) # 0
        /\ gameState \in {"dashboard", "quiz", "results"}
              => FindIndex(pdfRecords, activePdfId) # 0
        /\ gameState = "results" =>
              /\ Len(ActivePdf.quizAttempts) > 0
              /\ ActivePdf.quizAttempts[Len(ActivePdf.quizAttempts)].answers
                    = [i \in 1..Len(currentQuiz) |-> currentQuiz[i].status]

\* The results of a session are shown while another upload is in flight.
C21_Witness ==
    /\ phase = "run"
    /\ gameState = "results"
    /\ FindIndex(pdfRecords, activePdfId) # 0
    /\ extracting + generating > 0

====
